---- MODULE Spec2Model ----
(***************************************************************************)
(* Model of the child bridge supervisor (ChildBridgeService) of homebridge *)
(* and of the part of the host CLI that reacts to signals and uncaught     *)
(* errors.  One supervisor, the worker processes it forks, the restart     *)
(* timers it schedules and the status snapshots it publishes.              *)
(*                                                                         *)
(* Every handler of the class is a pure operator over a record of the      *)
(* object's fields (the record `s`), so that a handler calling another     *)
(* (handleProcessClose -> startChildProcess -> bridgeStatus setter ->      *)
(* sendStatusUpdate) is one composed step.  An action reads the current    *)
(* fields with Cur, applies the handler and writes the result with Commit. *)
(*                                                                         *)
(* Node emits 'disconnect', 'exit' and 'close' of a child one after the    *)
(* other; the model takes them as one event, Close: the process is gone,   *)
(* its channel is disconnected and the 'close' listener, if still          *)
(* attached, runs.  Time advances in steps of GracePeriod seconds, which   *)
(* divides every restart delay, and a timer that is due fires before time  *)
(* advances further.  A host process that has ended runs no handler.       *)
(*                                                                         *)
(* The PortArbiter (externalPortService) is described by the              *)
(* specification only: requestPort grants atomically, handlePortRequest    *)
(* awaits it and replies.  SpecPorts is the supervisor with the port       *)
(* requests of its worker; Spec is the supervisor whose worker asks for no *)
(* port; SpecStart is start() called again; SpecFair is Spec with the      *)
(* fairness of Node's timers; SpecConfig is the supervisor whose           *)
(* configuration is refreshed from the persisted document.                 *)
(***************************************************************************)
EXTENDS Integers, Sequences, FiniteSets, TLC

VARIABLES
    shuttingDown,       \* ChildBridgeService.shuttingDown
    lastBridgeStatus,   \* ChildBridgeService.lastBridgeStatus
    manuallyStopped,    \* ChildBridgeService.manuallyStopped
    restartCount,       \* ChildBridgeService.restartCount
    pairedStatus,       \* ChildBridgeService.pairedStatus ("null" | "true" | "false")
    setupUri,           \* ChildBridgeService.setupUri ("null" | "uri")
    args,               \* ChildBridgeService.args, the launch flags
    child,              \* ChildBridgeService.child: the process forked last
    orphans,            \* running processes forked earlier: their listeners are still attached
    timers,             \* pending restart timers: the seconds left of each, and
                        \* whether stopChildBridge was called since it was scheduled
    options,            \* the debug/homebridge options given to the constructor
    startCalls,         \* how many times start() has been called
    cliShuttingDown,    \* cli.ts: shuttingDown of the host
    exhausted,          \* history: the supervisor gave up restarting, and neither
                        \* startChildBridge nor restartChildBridge was called since
    leases,             \* PortArbiter: the port each requester holds (0: none)
    portCalls,          \* calls of handlePortRequest that await requestPort
    exitTimer,          \* cli.ts: the timer of signalHandler that ends the host
    exitCode,           \* the exit code of the host process (Running: it has not ended)
    pluginType,         \* ChildBridgeService.type ("platform" | "accessory")
    pluginConfig,       \* ChildBridgeService.pluginConfig, the config blocks
    bridgeConfig        \* ChildBridgeService.bridgeConfig, the bridge descriptor

vars == << shuttingDown, lastBridgeStatus, manuallyStopped, restartCount,
           pairedStatus, setupUri, args, child, orphans, timers, options,
           startCalls, cliShuttingDown, exhausted, leases, portCalls,
           exitTimer, exitCode, pluginType, pluginConfig, bridgeConfig >>

-----------------------------------------------------------------------------
(* Bounds of the model *)

\* worker processes running at the same time, at most
MaxProcs == 2

\* restart timers pending at the same time, at most
MaxTimers == 1

\* calls of start() by the orchestrator, at most
MaxStartCalls == 1

\* ports in the range the PortArbiter is configured with
MaxPorts == 1

\* calls of handlePortRequest awaiting requestPort at the same time, at most
MaxPortCalls == 2

\* the identities (usernames) that ports are requested for
Requesters == { "AA:01", "AA:02" }

\* this.identifier, and the username of the bridge the supervisor is for
identifier == "plugin"

Username == "AA:01"

\* config blocks in one list of the persisted configuration, and blocks
\* given to addConfig, at most
MaxBlocks == 2

(* Program constants *)

maxRestarts == 4

\* the restart delay is restartCount * DelayUnit seconds
DelayUnit == 10

\* the seconds between the first signal and process.exit; every restart delay
\* is a multiple of it, and time advances in steps of GracePeriod seconds
GracePeriod == 5

\* the numbers of SIGINT and SIGTERM, as bound to signalHandler
SIGINT == 2
SIGTERM == 15

\* exitCode of a host process that has not ended
Running == -1

-----------------------------------------------------------------------------
(* Worker processes *)

\* st: "none" (no fork yet), "running", "closed"; closeL: the 'close' listener is
\* attached; phase: 0 nothing sent, 1 Ready sent, 2 Loaded sent, 3 Online sent;
\* gotLoad, gotStart: the worker received Load, Start; by: the operation that
\* forked the current worker (history, kept for the current worker only)
NoProc == [st |-> "none", closeL |-> FALSE, phase |-> 0, gotLoad |-> FALSE, gotStart |-> FALSE,
           by |-> "none"]

\* fork(): a running process with the IPC channel connected and the
\* 'close' listener attached; the worker has sent nothing yet
NewProc == [st |-> "running", closeL |-> TRUE, phase |-> 0, gotLoad |-> FALSE, gotStart |-> FALSE,
            by |-> "none"]

\* the process has ended and its channel is disconnected
ClosedProc == [st |-> "closed", closeL |-> FALSE, phase |-> 0, gotLoad |-> FALSE, gotStart |-> FALSE,
               by |-> "none"]

\* this.child && this.child.connected
Connected(s) == s.child.st = "running"

\* the number of worker processes that are running
LiveWorkers == (IF child.st = "running" THEN 1 ELSE 0) + Len(orphans)

-----------------------------------------------------------------------------
(* The record a handler works on: the object's fields, and what the       *)
(* handler has done so far to the outside (out, pubs), which no field      *)
(* keeps                                                                   *)

\* spawned: calls of fork(); sched: the delay of the timer scheduled (0: none);
\* killed: SIGTERM sent to the current worker; sent: the messages sent to it;
\* threw: the handler ended with an exception; gaveUp: it logged that the
\* child bridge will no longer restart; sets: assignments to bridgeStatus;
\* allocated: the data of the PortAllocated messages sent; asked: the
\* requesters requestPort was called for; reads: calls of refreshConfig that
\* were started and not awaited
NoOut == [spawned |-> 0, sched |-> 0, killed |-> FALSE, sent |-> << >>, threw |-> FALSE,
          gaveUp |-> FALSE, sets |-> 0, allocated |-> << >>, asked |-> << >>, reads |-> 0]

Cur == [shuttingDown |-> shuttingDown, lastBridgeStatus |-> lastBridgeStatus,
        manuallyStopped |-> manuallyStopped, restartCount |-> restartCount,
        pairedStatus |-> pairedStatus, setupUri |-> setupUri, args |-> args,
        child |-> child, orphans |-> orphans, timers |-> timers,
        cliShuttingDown |-> cliShuttingDown,
        startCalls |-> startCalls,
        leases |-> leases, portCalls |-> portCalls,
        exitTimer |-> exitTimer, exitCode |-> exitCode,
        type |-> pluginType, identifier |-> identifier, pluginConfig |-> pluginConfig, bridgeConfig |-> bridgeConfig,
        pubs |-> << >>, out |-> NoOut]

\* the step of a handler that ends with the fields of s; `by` names the
\* operation, for the worker it forked; a host process that has ended runs
\* no handler
Commit(s, by) ==
    /\ exitCode = Running
    /\ Len(s.orphans) < MaxProcs
    /\ Len(s.timers) <= MaxTimers
    /\ Len(s.portCalls) <= MaxPortCalls
    /\ shuttingDown' = s.shuttingDown
    /\ lastBridgeStatus' = s.lastBridgeStatus
    /\ manuallyStopped' = s.manuallyStopped
    /\ restartCount' = s.restartCount
    /\ pairedStatus' = s.pairedStatus
    /\ setupUri' = s.setupUri
    /\ args' = s.args
    /\ child' = IF s.out.spawned > 0 THEN [s.child EXCEPT !.by = by] ELSE s.child
    /\ orphans' = s.orphans
    /\ timers' = s.timers
    /\ cliShuttingDown' = s.cliShuttingDown
    /\ startCalls' = s.startCalls
    /\ leases' = s.leases
    /\ portCalls' = s.portCalls
    /\ exitTimer' = s.exitTimer
    /\ exitCode' = s.exitCode
    /\ pluginConfig' = s.pluginConfig
    /\ bridgeConfig' = s.bridgeConfig
    /\ exhausted' = IF by \in {"startChildBridge", "restartChildBridge"} THEN FALSE
                    ELSE (exhausted \/ s.out.gaveUp)
    /\ UNCHANGED << options, pluginType >>

-----------------------------------------------------------------------------
(* ChildBridgeService *)

\* getMetadata(): the fields of the snapshot that change
getMetadata(s) == [status |-> s.lastBridgeStatus, paired |-> s.pairedStatus,
                   setupUri |-> s.setupUri, manuallyStopped |-> s.manuallyStopped]

\* sendStatusUpdate(): ipcService.sendMessage(CHILD_BRIDGE_STATUS_UPDATE, getMetadata())
sendStatusUpdate(s) == [s EXCEPT !.pubs = Append(@, getMetadata(s))]

\* a supervisor whose setter stores the status and tells nobody
setBridgeStatus_Silent(s, value) ==
    [s EXCEPT !.lastBridgeStatus = value, !.out.sets = @ + 1]

\* set bridgeStatus(value)
setBridgeStatus(s, value) ==
    sendStatusUpdate([s EXCEPT !.lastBridgeStatus = value, !.out.sets = @ + 1])

\* the processes whose listeners stay attached once this.child is overwritten
Orphaned(s) == IF s.child.st = "running"
               THEN Append(s.orphans, [s.child EXCEPT !.by = "none"]) ELSE s.orphans

\* startChildProcess()
startChildProcess(s) ==
    LET s1 == setBridgeStatus(s, "pending")
    IN  [s1 EXCEPT !.orphans = Orphaned(s1), !.child = NewProc, !.out.spawned = @ + 1]

\* what a worker knows after it received a message of the given type
Received(p, type) ==
    CASE type = "load" -> [p EXCEPT !.gotLoad = TRUE]
      [] type = "start" -> [p EXCEPT !.gotStart = TRUE]
      [] OTHER -> p

\* a supervisor that sends without looking at the channel
sendMessage_Unguarded(s, type) ==
    [s EXCEPT !.child = Received(@, type), !.out.sent = Append(@, type)]

\* sendMessage(type, data)
sendMessage(s, type) ==
    IF Connected(s)
    THEN [s EXCEPT !.child = Received(@, type), !.out.sent = Append(@, type)]
    ELSE s

\* setProcessFlags()
setProcessFlags(s, o) ==
    [s EXCEPT !.args = @
        \o (IF o.debugModeEnabled THEN << "-D" >> ELSE << >>)
        \o (IF o.forceColourLogging THEN << "-C" >> ELSE << >>)
        \o (IF o.insecureAccess THEN << "-I" >> ELSE << >>)
        \o (IF o.noLogTimestamps THEN << "-T" >> ELSE << >>)
        \o (IF o.keepOrphanedCachedAccessories THEN << "-K" >> ELSE << >>)
        \o (IF o.customStoragePath THEN << "-U", "storagePath" >> ELSE << >>)
        \o (IF o.customPluginPath THEN << "-P", "pluginPath" >> ELSE << >>)]

\* start()
start(s, o) == startChildProcess(setProcessFlags(s, o))

\* loadPlugin()
loadPlugin(s) == sendMessage(s, "load")

\* a supervisor whose startBridge() sends nothing
startBridge_Silent(s) == s

\* startBridge()
startBridge(s) == sendMessage(s, "start")

\* teardown()
teardown(s) ==
    IF Connected(s)
    THEN [setBridgeStatus(s, "down") EXCEPT !.out.killed = TRUE]
    ELSE s

\* setTimeout(..., delay * 1000)
setTimeout(s, delay) ==
    [s EXCEPT !.timers = Append(@, [left |-> delay, stopped |-> FALSE]), !.out.sched = delay]

\* const isLikelyPluginCrash = code === 1 && signal === null
isLikelyPluginCrash(code, signal) == code = 1 /\ signal = "null"

\* a supervisor that keeps restartCount when it respawns after a close that
\* is no crash
handleProcessClose_KeepCount(s, code, signal) ==
    IF isLikelyPluginCrash(code, signal)
    THEN IF s.restartCount < maxRestarts
         THEN LET s1 == setBridgeStatus(s, "pending")
                  s2 == [s1 EXCEPT !.restartCount = @ + 1]
              IN  setTimeout(s2, s2.restartCount * DelayUnit)
         ELSE [setBridgeStatus(s, "down") EXCEPT !.manuallyStopped = TRUE, !.out.gaveUp = TRUE]
    ELSE IF ~s.shuttingDown
         THEN startChildProcess(setBridgeStatus(s, "down"))
         ELSE s

\* a supervisor that waits the same delay after every crash
handleProcessClose_FlatDelay(s, code, signal) ==
    IF isLikelyPluginCrash(code, signal)
    THEN IF s.restartCount < maxRestarts
         THEN LET s1 == setBridgeStatus(s, "pending")
                  s2 == [s1 EXCEPT !.restartCount = @ + 1]
              IN  setTimeout(s2, DelayUnit)
         ELSE [setBridgeStatus(s, "down") EXCEPT !.manuallyStopped = TRUE, !.out.gaveUp = TRUE]
    ELSE IF ~s.shuttingDown
         THEN startChildProcess([setBridgeStatus(s, "down") EXCEPT !.restartCount = 0])
         ELSE s

\* handleProcessClose(code, signal)
handleProcessClose(s, code, signal) ==
    IF isLikelyPluginCrash(code, signal)
    THEN IF s.restartCount < maxRestarts
         THEN LET s1 == setBridgeStatus(s, "pending")
                  s2 == [s1 EXCEPT !.restartCount = @ + 1]
              IN  setTimeout(s2, s2.restartCount * DelayUnit)
         ELSE [setBridgeStatus(s, "down") EXCEPT !.manuallyStopped = TRUE, !.out.gaveUp = TRUE]
    ELSE IF ~s.shuttingDown
         THEN startChildProcess([setBridgeStatus(s, "down") EXCEPT !.restartCount = 0])
         ELSE s

\* a timer callback that does nothing
restartTimer_Idle(s) == s

\* a timer callback that forks without looking at shuttingDown
restartTimer_Unconditional(s) == startChildProcess(s)

\* the callback given to setTimeout in handleProcessClose
restartTimer(s) == IF ~s.shuttingDown THEN startChildProcess(s) ELSE s

\* this.child?.removeAllListeners('close')
removeCloseListeners(s) ==
    IF s.child.st = "running" THEN [s EXCEPT !.child.closeL = FALSE] ELSE s

\* stopChildBridge()
stopChildBridge(s) ==
    IF ~s.shuttingDown
    THEN LET s1 == [s EXCEPT !.shuttingDown = TRUE, !.manuallyStopped = TRUE,
                             !.restartCount = 0]
         IN  teardown(removeCloseListeners(setBridgeStatus(s1, "down")))
    ELSE s

-----------------------------------------------------------------------------
(* The persisted configuration and refreshConfig *)

PluginTypes == { "platform", "accessory" }

\* the _bridge of a block that has none
NoBridge == [username |-> "undefined", name |-> "undefined"]

\* the block given to addConfig, as the orchestrator found it at startup
FirstBlock == [id |-> identifier, bridge |-> [username |-> Username, name |-> "a"]]

\* an entry of a list that is null, no object
NullBlock == [id |-> "null", bridge |-> NoBridge]

\* entries of the platforms / accessories lists: blocks of this bridge with
\* an edited descriptor, a block of another bridge of the plugin, a block of
\* another plugin, a block of the plugin that runs on no child bridge, null
Blocks ==
    { [id |-> identifier, bridge |-> [username |-> Username, name |-> n]] : n \in { "b", "c" } }
    \cup { [id |-> identifier, bridge |-> [username |-> "AA:02", name |-> "b"]],
           [id |-> "other", bridge |-> [username |-> Username, name |-> "b"]],
           [id |-> identifier, bridge |-> NoBridge],
           NullBlock }

\* a key of the document: absent, or a list of entries
ConfigLists ==
    { [present |-> FALSE, blocks |-> << >>] }
    \cup { [present |-> TRUE, blocks |-> b] :
               b \in UNION { [1..n -> Blocks] : n \in 0..MaxBlocks } }

\* what fs.readJson yields: a rejection (the file cannot be read or is no
\* JSON), or the document
ConfigFiles ==
    { [readable |-> FALSE, platforms |-> [present |-> FALSE, blocks |-> << >>],
       accessories |-> [present |-> FALSE, blocks |-> << >>]] }
    \cup { [readable |-> TRUE, platforms |-> l, accessories |-> l] : l \in ConfigLists }
    \cup { [readable |-> TRUE, platforms |-> l,
            accessories |-> [present |-> FALSE, blocks |-> << >>]] : l \in ConfigLists }
    \cup { [readable |-> TRUE, platforms |-> [present |-> FALSE, blocks |-> << >>],
            accessories |-> l] : l \in ConfigLists }

\* addConfig(config)
addConfig(s, config) == [s EXCEPT !.pluginConfig = Append(@, config)]

\* x => x.platform === this.identifier && x._bridge?.username === this.bridgeConfig.username
matchesBridge(s, x) == x.id = s.identifier /\ x.bridge.username = s.bridgeConfig.username

\* the body of the try block, once readJson has yielded f: reading a
\* property of an absent list or of a null entry throws a TypeError
tryRefreshConfig(s, f) ==
    IF ~f.readable
    THEN [s EXCEPT !.out.threw = TRUE]
    ELSE LET list == IF s.type = "platform" THEN f.platforms ELSE f.accessories
             config == SelectSeq(list.blocks, LAMBDA x : matchesBridge(s, x))
         IN  IF ~list.present \/ \E i \in 1..Len(list.blocks) : list.blocks[i] = NullBlock
             THEN [s EXCEPT !.out.threw = TRUE]
             ELSE IF Len(config) > 0
                  THEN [s EXCEPT !.pluginConfig = config,
                                 !.bridgeConfig = IF config[1].bridge # NoBridge
                                                  THEN config[1].bridge ELSE @]
                  ELSE s

\* a refreshConfig without its catch clause
refreshConfig_NoCatch(s, f) == tryRefreshConfig(s, f)

\* refreshConfig(), from the moment readJson has yielded f: nothing of the
\* object is read or written before that await
refreshConfig(s, f) ==
    IF tryRefreshConfig(s, f).out.threw THEN s ELSE tryRefreshConfig(s, f)

\* this.refreshConfig(), not awaited: the read of the configuration starts
refreshConfigCalled(s) == [s EXCEPT !.out.reads = @ + 1]

\* a supervisor whose startChildBridge() leaves shuttingDown set
startChildBridge_StillShuttingDown(s) ==
    IF s.manuallyStopped /\ s.lastBridgeStatus = "down" /\ ~Connected(s)
    THEN [startChildProcess(refreshConfigCalled(s)) EXCEPT !.manuallyStopped = FALSE]
    ELSE s

\* startChildBridge()
startChildBridge(s) ==
    IF s.manuallyStopped /\ s.lastBridgeStatus = "down" /\ ~Connected(s)
    THEN [startChildProcess(refreshConfigCalled(s)) EXCEPT
              !.shuttingDown = FALSE, !.manuallyStopped = FALSE]
    ELSE s

\* a supervisor whose restartChildBridge() keeps restartCount
restartChildBridge_KeepCount(s) ==
    IF s.manuallyStopped
    THEN startChildBridge(s)
    ELSE teardown(refreshConfigCalled(s))

\* a supervisor whose restartChildBridge() resets restartCount in both branches
restartChildBridge_AlwaysReset(s) ==
    IF s.manuallyStopped
    THEN startChildBridge([s EXCEPT !.restartCount = 0])
    ELSE teardown(refreshConfigCalled([s EXCEPT !.restartCount = 0]))

\* restartChildBridge()
restartChildBridge(s) ==
    IF s.manuallyStopped
    THEN startChildBridge([s EXCEPT !.restartCount = 0])
    ELSE teardown(refreshConfigCalled(s))

\* the listener of the api's 'shutdown' event
onShutdown(s) == teardown([s EXCEPT !.shuttingDown = TRUE])

\* the child's 'error' listener
onError(s) == setBridgeStatus(s, "down")

-----------------------------------------------------------------------------
(* cli.ts *)

\* a host whose signalHandler tears the server down and schedules no exit
signalHandler_NoTimer(s, signalNum) ==
    IF s.cliShuttingDown THEN s ELSE onShutdown([s EXCEPT !.cliShuttingDown = TRUE])

\* signalHandler: the first SIGINT/SIGTERM schedules the exit of the host
\* and tears the server down, which emits 'shutdown' on the api
signalHandler(s, signalNum) ==
    IF s.cliShuttingDown
    THEN s
    ELSE onShutdown([s EXCEPT !.cliShuttingDown = TRUE,
                              !.exitTimer = Append(@, [left |-> GracePeriod,
                                                       signalNum |-> signalNum])])

\* errorHandler: on an uncaught exception the host sends itself SIGTERM,
\* which signalHandler receives
errorHandler(s) == IF ~s.cliShuttingDown THEN signalHandler(s, SIGTERM) ELSE s

\* an exception leaves the handler and reaches process.on('uncaughtException')
Throw(s) == errorHandler([s EXCEPT !.out.threw = TRUE])

-----------------------------------------------------------------------------
(* PortArbiter (externalPortService), as the specification describes it:   *)
(* requestPort(requesterId) -> port | failure, an atomic grant; a lease is *)
(* a mapping from the requester to its port; released ports are reused     *)

Ports == 1..MaxPorts

\* the ports no requester holds
FreePorts(l) == { p \in Ports : \A u \in Requesters : l[u] # p }

\* an arbiter that hands out the first port of its range, leased or not
requestPort_FirstPort(l, u) ==
    IF l[u] # 0
    THEN [leases |-> l, port |-> l[u]]
    ELSE [leases |-> [l EXCEPT ![u] = 1], port |-> 1]

\* an arbiter that starts over at the first port when its range is used up
requestPort_WrapsAround(l, u) ==
    IF l[u] # 0
    THEN [leases |-> l, port |-> l[u]]
    ELSE LET p == IF FreePorts(l) # {}
                  THEN CHOOSE x \in FreePorts(l) : \A y \in FreePorts(l) : x <= y
                  ELSE 1
         IN  [leases |-> [l EXCEPT ![u] = p], port |-> p]

\* a requester's port stays its own; otherwise a free port is leased to it;
\* with no port free the result is absent (0), not an error
requestPort(l, u) ==
    IF l[u] # 0
    THEN [leases |-> l, port |-> l[u]]
    ELSE IF FreePorts(l) # {}
         THEN LET p == CHOOSE x \in FreePorts(l) : \A y \in FreePorts(l) : x <= y
              IN  [leases |-> [l EXCEPT ![u] = p], port |-> p]
         ELSE [leases |-> l, port |-> 0]

\* the orchestrator tells the arbiter that the requester is gone
releasePort(l, u) == [l EXCEPT ![u] = 0]

-----------------------------------------------------------------------------
(* handlePortRequest(request), an async method in three steps: the call of *)
(* requestPort, the arbiter's grant, and what follows the await            *)

\* const port = await this.externalPortService.requestPort(request.username)
handlePortRequest(s, username) ==
    [s EXCEPT !.portCalls = Append(@, [username |-> username, granted |-> FALSE, port |-> 0]),
              !.out.asked = Append(@, username)]

\* the arbiter serves the i-th call
grantPort(s, i) ==
    LET g == requestPort(s.leases, s.portCalls[i].username)
    IN  [s EXCEPT !.leases = g.leases,
                  !.portCalls[i] = [@ EXCEPT !.granted = TRUE, !.port = g.port]]

\* a supervisor that answers a request only if it got a port
portAllocated_OnlyIfGranted(s, i) ==
    LET call == s.portCalls[i]
        s1 == [s EXCEPT !.portCalls = SubSeq(@, 1, i - 1) \o SubSeq(@, i + 1, Len(@))]
        s2 == sendMessage(s1, "portAllocated")
    IN  IF Connected(s1) /\ call.port # 0
        THEN [s2 EXCEPT !.out.allocated =
                             Append(@, [username |-> call.username, port |-> call.port])]
        ELSE s1

\* this.sendMessage(PORT_ALLOCATED, { username: request.username, port })
portAllocated(s, i) ==
    LET call == s.portCalls[i]
        s1 == [s EXCEPT !.portCalls = SubSeq(@, 1, i - 1) \o SubSeq(@, i + 1, Len(@))]
        s2 == sendMessage(s1, "portAllocated")
    IN  IF Connected(s1)
        THEN [s2 EXCEPT !.out.allocated =
                             Append(@, [username |-> call.username, port |-> call.port])]
        ELSE s2

-----------------------------------------------------------------------------

(* The 'message' listener *)

\* StatusUpdate payloads a worker sends
StatusPayloads == { [paired |-> "true", setupUri |-> "uri"] }

NoPayload == [paired |-> "null", setupUri |-> "null"]

\* child.on('message', ...): a message that is no object or has no id
\* ("none") is dropped; the message null is an object, and reading its id
\* throws; a case that reads a field of absent data throws; the promise of
\* handlePortRequest, rejected for absent data, is handled by nobody, which
\* the process treats as an uncaught exception
onMessage(s, m, payload) ==
    IF m.id = "none"
    THEN s
    ELSE CASE m.id = "null" -> Throw(s)
           [] m.id = "ready" -> loadPlugin(s)
           [] m.id = "loaded" -> IF m.hasData THEN startBridge(s) ELSE Throw(s)
           [] m.id = "online" -> setBridgeStatus(s, "ok")
           [] m.id = "port" ->
                IF m.hasData THEN handlePortRequest(s, payload.username) ELSE Throw(s)
           [] m.id = "status" ->
                IF m.hasData
                THEN sendStatusUpdate([s EXCEPT !.pairedStatus = payload.paired,
                                                !.setupUri = payload.setupUri])
                ELSE Throw(s)
           [] OTHER -> s

-----------------------------------------------------------------------------
(* The worker: what it may send next, and its state after sending it *)

MaySend(p, id) ==
    /\ p.st = "running"
    /\ CASE id = "ready" -> p.phase = 0
         [] id = "loaded" -> p.phase = 1 /\ p.gotLoad
         [] id = "online" -> p.phase = 2 /\ p.gotStart
         [] id = "status" -> p.phase >= 2
         [] id = "port" -> p.phase >= 2
         [] OTHER -> TRUE

AfterSend(p, id) ==
    CASE id = "ready" -> [p EXCEPT !.phase = 1]
      [] id = "loaded" -> [p EXCEPT !.phase = 2]
      [] id = "online" -> [p EXCEPT !.phase = 3]
      [] OTHER -> p

\* the sequence without its i-th element
Remove(seq, i) == SubSeq(seq, 1, i - 1) \o SubSeq(seq, i + 1, Len(seq))

-----------------------------------------------------------------------------
(* Initial state: the object as constructed *)

\* every combination of the options that setProcessFlags reads
AllOptions ==
    [ debugModeEnabled : BOOLEAN, forceColourLogging : BOOLEAN, insecureAccess : BOOLEAN,
      noLogTimestamps : BOOLEAN, keepOrphanedCachedAccessories : BOOLEAN,
      customStoragePath : BOOLEAN, customPluginPath : BOOLEAN ]

\* homebridge -D -U <path>
DebugOptions ==
    [ debugModeEnabled |-> TRUE, forceColourLogging |-> FALSE, insecureAccess |-> FALSE,
      noLogTimestamps |-> FALSE, keepOrphanedCachedAccessories |-> FALSE,
      customStoragePath |-> TRUE, customPluginPath |-> FALSE ]

\* the object as constructed, but for the options it was given
Constructed ==
    /\ shuttingDown = FALSE
    /\ lastBridgeStatus = "pending"
    /\ manuallyStopped = FALSE
    /\ restartCount = 0
    /\ pairedStatus = "null"
    /\ setupUri = "null"
    /\ args = << >>
    /\ child = NoProc
    /\ orphans = << >>
    /\ timers = << >>
    /\ startCalls = 0
    /\ cliShuttingDown = FALSE
    /\ exhausted = FALSE
    /\ leases = [u \in Requesters |-> 0]
    /\ portCalls = << >>
    /\ exitTimer = << >>
    /\ exitCode = Running
    /\ pluginConfig = << >>
    /\ bridgeConfig = [username |-> Username, name |-> "a"]

Init == Constructed /\ options = DebugOptions /\ pluginType = "platform"

-----------------------------------------------------------------------------
(* Actions *)

\* The orchestrator constructs the supervisor and calls start(); the
\* management interface calls stopChildBridge, startChildBridge and
\* restartChildBridge on a supervisor that was started.
Started == startCalls > 0

\* the orchestrator calls start()
Start ==
    /\ startCalls < MaxStartCalls
    /\ Commit([start(Cur, options) EXCEPT !.startCalls = @ + 1], "start")

\* stopChildBridge() is called; the timers pending have seen a stop
StopChildBridge ==
    /\ Started
    /\ Commit([stopChildBridge(Cur) EXCEPT
                      !.timers = [i \in 1..Len(@) |-> [@[i] EXCEPT !.stopped = TRUE]]],
                  "stopChildBridge")

StartChildBridge ==
    /\ Started
    /\ Commit(startChildBridge(Cur), "startChildBridge")

RestartChildBridge ==
    /\ Started
    /\ Commit(restartChildBridge(Cur), "restartChildBridge")

\* the messages a worker sends: id "none" is a message without id
Messages ==
    { [id |-> i, hasData |-> FALSE, payload |-> NoPayload] :
            i \in {"none", "null", "unknown", "ready", "online", "loaded", "status"} }
    \cup { [id |-> "loaded", hasData |-> TRUE, payload |-> NoPayload] }
    \cup { [id |-> "status", hasData |-> TRUE, payload |-> p] : p \in StatusPayloads }

\* the current worker sends m: what the 'message' listener makes of it
ChildMessageResult(m) == onMessage([Cur EXCEPT !.child = AfterSend(@, m.id)], m, m.payload)

ChildSends(m) ==
    /\ MaySend(child, m.id)
    /\ Commit(ChildMessageResult(m), "message")

ChildMessage == \E m \in Messages : ChildSends(m)

\* a worker forked earlier sends m: its 'message' listener is still attached
OrphanMessageResult(i, m) ==
    onMessage([Cur EXCEPT !.orphans[i] = AfterSend(@, m.id)], m, m.payload)

OrphanSends(i, m) ==
    /\ MaySend(orphans[i], m.id)
    /\ Commit(OrphanMessageResult(i, m), "message")

OrphanMessage == \E i \in 1..Len(orphans), m \in Messages : OrphanSends(i, m)

\* exit code (-1: null) and signal of a close; one of the two is not null
CloseResults == { [code |-> 0, signal |-> "null"], [code |-> 1, signal |-> "null"],
                  [code |-> 2, signal |-> "null"], [code |-> -1, signal |-> "SIGTERM"],
                  [code |-> 1, signal |-> "SIGTERM"] }

\* child.once('close', ...): the listener runs if it is still attached
onClose(s, closeL, r) == IF closeL THEN handleProcessClose(s, r.code, r.signal) ELSE s

\* the current worker ends with result r
ChildCloseResult(r) == onClose([Cur EXCEPT !.child = ClosedProc], child.closeL, r)

ChildCloses(r) ==
    /\ child.st = "running"
    /\ Commit(ChildCloseResult(r), "close")

ChildClose == \E r \in CloseResults : ChildCloses(r)

\* a worker forked earlier ends with result r
OrphanCloseResult(i, r) ==
    onClose([Cur EXCEPT !.orphans = Remove(orphans, i)], orphans[i].closeL, r)

OrphanCloses(i, r) == Commit(OrphanCloseResult(i, r), "close")

OrphanClose == \E i \in 1..Len(orphans), r \in CloseResults : OrphanCloses(i, r)

\* 'error' of a worker that is running
ChildError ==
    /\ child.st = "running"
    /\ Commit(onError(Cur), "error")

OrphanError ==
    /\ orphans # << >>
    /\ Commit(onError(Cur), "error")

\* the i-th restart timer fires
TimerResult(i) == restartTimer([Cur EXCEPT !.timers = Remove(@, i)])

TimerFiresAt(i) ==
    /\ timers[i].left = 0
    /\ Commit(TimerResult(i), "timer")

TimerFires == \E i \in 1..Len(timers) : TimerFiresAt(i)

\* GracePeriod seconds pass; a timer that is due fires first
Tick ==
    /\ timers # << >> \/ exitTimer # << >>
    /\ \A i \in 1..Len(timers) : timers[i].left > 0
    /\ \A i \in 1..Len(exitTimer) : exitTimer[i].left > 0
    /\ Commit([Cur EXCEPT
                  !.timers = [i \in 1..Len(@) |-> [@[i] EXCEPT !.left = @ - GracePeriod]],
                  !.exitTimer = [i \in 1..Len(@) |-> [@[i] EXCEPT !.left = @ - GracePeriod]]],
              "tick")

\* the signals the host has a handler for
SignalNums == { SIGINT, SIGTERM }

\* the host receives SIGINT or SIGTERM
Signal == \E signalNum \in SignalNums : Commit(signalHandler(Cur, signalNum), "signal")

\* () => process.exit(128 + signalNum)
exitHost(s, signalNum) == [s EXCEPT !.exitTimer = << >>, !.exitCode = 128 + signalNum]

\* the timer of signalHandler fires: the host process ends
HostExit ==
    /\ exitTimer # << >>
    /\ exitTimer[1].left = 0
    /\ Commit(exitHost(Cur, exitTimer[1].signalNum), "exit")

Next ==
    \/ Start
    \/ StopChildBridge
    \/ StartChildBridge
    \/ RestartChildBridge
    \/ ChildMessage
    \/ OrphanMessage
    \/ ChildClose
    \/ OrphanClose
    \/ ChildError
    \/ OrphanError
    \/ TimerFires
    \/ Tick
    \/ Signal
    \/ HostExit

Spec == Init /\ [][Next]_vars

-----------------------------------------------------------------------------
(* The supervisor under fair timers: Node's event loop lets time pass and  *)
(* runs every timer that is due.  No fairness is assumed of the workers,   *)
(* which may never exit, nor of the callers of the operations.             *)

\* the bounds leave room for the worker a pending restart timer forks, so
\* that no bound keeps a due timer from firing
Room == Len(orphans) + Len(timers) < MaxProcs

NextFair ==
    \/ Start /\ Room'
    \/ StopChildBridge /\ Room'
    \/ StartChildBridge /\ Room'
    \/ RestartChildBridge /\ Room'
    \/ ChildMessage /\ Room'
    \/ OrphanMessage /\ Room'
    \/ ChildClose /\ Room'
    \/ OrphanClose /\ Room'
    \/ ChildError /\ Room'
    \/ OrphanError /\ Room'
    \/ TimerFires /\ Room'
    \/ Tick /\ Room'
    \/ Signal /\ Room'
    \/ HostExit /\ Room'

SpecFair ==
    /\ Init
    /\ [][NextFair]_vars
    /\ WF_vars(Tick) /\ WF_vars(TimerFires) /\ WF_vars(HostExit)

-----------------------------------------------------------------------------
(* start() called again, for any options given to the constructor *)

InitAnyOptions == Constructed /\ options \in AllOptions /\ pluginType = "platform"

\* start() is called, once more than the orchestrator does at most
StartAgain ==
    /\ startCalls <= MaxStartCalls
    /\ Commit([start(Cur, options) EXCEPT !.startCalls = @ + 1], "start")

NextStart ==
    \/ StartAgain
    \/ StopChildBridge
    \/ ChildMessage
    \/ Signal

SpecStart == InitAnyOptions /\ [][NextStart]_vars

-----------------------------------------------------------------------------
(* The configuration is edited and refreshed: the orchestrator gives the   *)
(* supervisor its blocks and starts it; refreshConfig is called by         *)
(* startChildBridge and restartChildBridge and, being public, by anybody   *)

InitConfig == Constructed /\ options = DebugOptions /\ pluginType \in PluginTypes

\* the orchestrator adds a block before it calls start()
AddConfig ==
    /\ ~Started
    /\ Len(pluginConfig) < MaxBlocks
    /\ Commit(addConfig(Cur, FirstBlock), "addConfig")

\* the readJson of a call of refreshConfig yields f
ConfigRead(f) == Commit(refreshConfig(Cur, f), "refreshConfig")

RefreshConfig == \E f \in ConfigFiles : ConfigRead(f)

NextConfig ==
    \/ AddConfig
    \/ Start
    \/ RefreshConfig
    \/ StopChildBridge
    \/ StartChildBridge
    \/ RestartChildBridge
    \/ ChildClose

SpecConfig == InitConfig /\ [][NextConfig]_vars

-----------------------------------------------------------------------------
(* Port requests: the worker asks for ports for the accessories it         *)
(* publishes, the arbiter grants, the supervisor replies                   *)

\* PortRequest messages, with and without their data
PortMessages ==
    { [id |-> "port", hasData |-> TRUE, payload |-> [username |-> u]] : u \in Requesters }
    \cup { [id |-> "port", hasData |-> FALSE, payload |-> NoPayload] }

\* the current worker sends a PortRequest
PortRequest == \E m \in PortMessages : ChildSends(m)

\* the arbiter serves the i-th call that waits
GrantPortAt(i) ==
    /\ ~portCalls[i].granted
    /\ Commit(grantPort(Cur, i), "grant")

GrantPort == \E i \in 1..Len(portCalls) : GrantPortAt(i)

\* the await of the i-th call ends: PortAllocated is sent
PortReplyAt(i) ==
    /\ portCalls[i].granted
    /\ Commit(portAllocated(Cur, i), "reply")

PortReply == \E i \in 1..Len(portCalls) : PortReplyAt(i)

\* the orchestrator releases the port of a requester
ReleasePort ==
    \E u \in Requesters :
        /\ leases[u] # 0
        /\ Commit([Cur EXCEPT !.leases = releasePort(@, u)], "release")

NextPorts ==
    \/ Start
    \/ ChildMessage
    \/ PortRequest
    \/ GrantPort
    \/ PortReply
    \/ ReleasePort
    \/ ChildClose
    \/ StopChildBridge
    \/ StartChildBridge

SpecPorts == Init /\ [][NextPorts]_vars

-----------------------------------------------------------------------------

(* What the claims speak of *)

\* a close that the claims call a crash: exit code 1 and no signal
CrashClose(r) == r.code = 1 /\ r.signal = "null"

\* a step in which a close listener or a restart timer forks a worker
AutoSpawn ==
    \/ \E i \in 1..Len(timers) : TimerFiresAt(i) /\ TimerResult(i).out.spawned > 0
    \/ \E r \in CloseResults : ChildCloses(r) /\ ChildCloseResult(r).out.spawned > 0
    \/ \E i \in 1..Len(orphans), r \in CloseResults :
            OrphanCloses(i, r) /\ OrphanCloseResult(i, r).out.spawned > 0

\* the state right after the first call of start()
JustStarted ==
    /\ startCalls = 1
    /\ child = [NewProc EXCEPT !.by = "start"]
    /\ orphans = << >>
    /\ lastBridgeStatus = "pending"
    /\ ~shuttingDown /\ ~manuallyStopped /\ ~cliShuttingDown

-----------------------------------------------------------------------------
(* C1: once the fifth consecutive crash close is handled (a crash close    *)
(* with restartCount = maxRestarts), status is Down and manuallyStopped is *)
(* true, and status stays Down, with no worker forked, until               *)
(* startChildBridge or restartChildBridge is called.                       *)
C1_DownUntilManualStart ==
    exhausted => (lastBridgeStatus = "down" /\ manuallyStopped /\ LiveWorkers = 0)

(* C2: a supervisor has at most one live worker process in every           *)
(* reachable state.                                                        *)
C2_AtMostOneLiveWorker == LiveWorkers <= 1

(* C3: while manuallyStopped is true, no close listener and no restart     *)
(* timer forks a worker.                                                   *)
C3_NoAutoSpawnWhileStopped == [][manuallyStopped => ~AutoSpawn]_vars

(* C4: stopChildBridge called while status is Online with a connected      *)
(* worker makes status Down, sets manuallyStopped and shuttingDown, sends  *)
(* the worker SIGTERM and detaches its close listener, so that the         *)
(* worker's exit forks nothing and schedules nothing.                      *)
C4_StopWhileOnline ==
    (Started /\ lastBridgeStatus = "ok" /\ child.st = "running") =>
        LET res == stopChildBridge(Cur)
        IN  /\ res.lastBridgeStatus = "down"
            /\ res.manuallyStopped /\ res.shuttingDown
            /\ res.out.killed
            /\ ~res.child.closeL
            /\ \A r \in CloseResults :
                  LET end == onClose([res EXCEPT !.child = ClosedProc, !.out = NoOut],
                                     res.child.closeL, r)
                  IN  end.out.spawned = 0 /\ end.out.sched = 0

(* C5: a restart timer that was pending when stopChildBridge was called    *)
(* forks no worker when it fires, whatever was called in between.          *)
C5_StoppedTimerSpawnsNothing ==
    [][\A i \in 1..Len(timers) :
          (TimerFiresAt(i) /\ timers[i].stopped) => TimerResult(i).out.spawned = 0]_vars

(* C6: the handshake of the current worker: its Ready makes the supervisor *)
(* send it Load, its Loaded(version) makes the supervisor send it Start,   *)
(* its Online sets status to Online and publishes one snapshot whose       *)
(* status is Online.                                                       *)
C6_Handshake ==
    [][\A m \in Messages : ChildSends(m) =>
          LET res == ChildMessageResult(m)
          IN  /\ m.id = "ready" => (res.out.sent = << "load" >> /\ child'.gotLoad)
              /\ (m.id = "loaded" /\ m.hasData) =>
                    (res.out.sent = << "start" >> /\ child'.gotStart /\ ~res.out.threw)
              /\ m.id = "online" =>
                    /\ lastBridgeStatus' = "ok"
                    /\ Len(res.pubs) = 1
                    /\ res.pubs[1].status = "ok"]_vars

\* the current worker went through the whole handshake and is online
C6_Witness ==
    /\ lastBridgeStatus = "ok"
    /\ child.st = "running" /\ child.phase = 3 /\ child.gotLoad /\ child.gotStart
    /\ orphans = << >>

(* C7: a second call of start() leaves the number of live workers, the     *)
(* launch flags and the status as they were after the first call.          *)
C7_StartIdempotent ==
    [][(JustStarted /\ StartAgain) =>
          (LiveWorkers' = LiveWorkers /\ args' = args
           /\ lastBridgeStatus' = lastBridgeStatus)]_vars

(* C8: manuallyStopped = true implies status = Down in every reachable     *)
(* state: no message, process event or timer changes the status of a       *)
(* stopped supervisor.                                                     *)
C8_StoppedImpliesDown == manuallyStopped => lastBridgeStatus = "down"

(* C9: a close that is not a crash (exit code other than 1, or a signal),  *)
(* handled while shuttingDown is false, resets restartCount to 0, leaves   *)
(* status Pending and forks a new worker in the same step, scheduling no   *)
(* timer.                                                                  *)
C9_Respawned(res) ==
    /\ restartCount' = 0
    /\ lastBridgeStatus' = "pending"
    /\ res.out.spawned = 1
    /\ child' = [NewProc EXCEPT !.by = "close"]
    /\ res.out.sched = 0
    /\ timers' = timers

C9_NonCrashCloseRespawns ==
    [][\A r \in CloseResults : (~CrashClose(r) /\ ~shuttingDown) =>
          /\ (ChildCloses(r) /\ child.closeL) => C9_Respawned(ChildCloseResult(r))
          /\ \A i \in 1..Len(orphans) :
                (OrphanCloses(i, r) /\ orphans[i].closeL) =>
                    C9_Respawned(OrphanCloseResult(i, r))]_vars

\* a close listener has just forked the current worker
C9_Witness ==
    /\ child.by = "close" /\ child.st = "running" /\ child.phase = 0
    /\ restartCount = 0
    /\ lastBridgeStatus = "pending"
    /\ ~shuttingDown

(* C10: a crash close (exit code 1, no signal) handled while shuttingDown  *)
(* is false and restartCount = n < 4 sets restartCount to n + 1, sets      *)
(* status Pending and schedules exactly one timer, of 10 * (n + 1)         *)
(* seconds, forking nothing.                                               *)
C10_Scheduled(res) ==
    /\ restartCount' = restartCount + 1
    /\ lastBridgeStatus' = "pending"
    /\ res.out.sched = 10 * (restartCount + 1)
    /\ timers' = Append(timers, [left |-> 10 * (restartCount + 1), stopped |-> FALSE])
    /\ res.out.spawned = 0

C10_CrashCloseBacksOff ==
    [][\A r \in CloseResults : (CrashClose(r) /\ ~shuttingDown /\ restartCount < 4) =>
          /\ (ChildCloses(r) /\ child.closeL) => C10_Scheduled(ChildCloseResult(r))
          /\ \A i \in 1..Len(orphans) :
                (OrphanCloses(i, r) /\ orphans[i].closeL) =>
                    C10_Scheduled(OrphanCloseResult(i, r))]_vars

\* the fourth consecutive crash has just been handled: 40 seconds to wait
C10_Witness ==
    /\ restartCount = 4
    /\ timers = << [left |-> 40, stopped |-> FALSE] >>
    /\ lastBridgeStatus = "pending"
    /\ ~shuttingDown

(* C11: restartCount decreases only by being reset to 0, and only in a     *)
(* close that is no crash handled while not shutting down or in            *)
(* restartChildBridge on a manually stopped supervisor; every other step   *)
(* leaves it unchanged or adds exactly 1.                                  *)
C11_NonCrashClose ==
    /\ ~shuttingDown
    /\ \E r \in CloseResults :
          /\ ~CrashClose(r)
          /\ ChildCloses(r) \/ \E i \in 1..Len(orphans) : OrphanCloses(i, r)

C11_ManualRestart == manuallyStopped /\ RestartChildBridge

C11_Stop == ~shuttingDown /\ StopChildBridge

C11_ResetOnlyOnRestart ==
    [][restartCount' # restartCount =>
          \/ restartCount' = restartCount + 1
          \/ restartCount' = 0 /\ (C11_NonCrashClose \/ C11_ManualRestart)]_vars

(* C11, amended: restartCount is also reset to 0 by stopChildBridge called *)
(* while not shutting down; every other step leaves it unchanged or adds   *)
(* exactly 1.                                                              *)
C11_ResetOnlyOnRestartOrStop ==
    [][restartCount' # restartCount =>
          \/ restartCount' = restartCount + 1
          \/ restartCount' = 0 /\ (C11_NonCrashClose \/ C11_ManualRestart \/ C11_Stop)]_vars

\* stopChildBridge was called while a restart timer was pending: a crash
\* had been counted, and the count is 0 again
C11_Witness ==
    /\ restartCount = 0
    /\ manuallyStopped /\ shuttingDown
    /\ timers # << >> /\ timers[1].stopped
    /\ orphans = << >>

(* C12: startChildBridge forks a worker, sets status Pending and clears    *)
(* shuttingDown and manuallyStopped exactly when, at the call,             *)
(* manuallyStopped is true, status is Down and no connected worker is      *)
(* attached; in every other state it forks nothing and leaves status,      *)
(* shuttingDown, manuallyStopped and restartCount unchanged.               *)
C12_MayStart == manuallyStopped /\ lastBridgeStatus = "down" /\ child.st # "running"

C12_StartChildBridgeEffect ==
    [][StartChildBridge =>
          LET res == startChildBridge(Cur)
          IN  IF C12_MayStart
              THEN /\ res.out.spawned = 1
                   /\ child' = [NewProc EXCEPT !.by = "startChildBridge"]
                   /\ lastBridgeStatus' = "pending"
                   /\ ~shuttingDown' /\ ~manuallyStopped'
              ELSE /\ res.out.spawned = 0
                   /\ child' = child
                   /\ UNCHANGED << lastBridgeStatus, shuttingDown, manuallyStopped,
                                   restartCount >>]_vars

\* startChildBridge has just forked the current worker
C12_Witness ==
    /\ child.by = "startChildBridge" /\ child.st = "running" /\ child.phase = 0
    /\ lastBridgeStatus = "pending"
    /\ ~shuttingDown /\ ~manuallyStopped

(* C13: restartChildBridge on a manually stopped supervisor resets         *)
(* restartCount to 0 and forks a fresh worker (status Pending), no crash   *)
(* needed; on a supervisor that is not manually stopped and has a          *)
(* connected worker it sends the worker SIGTERM, and the close of that     *)
(* worker is followed by a respawn done by the close listener.             *)
C13_Fresh(res) ==
    /\ res.restartCount = 0
    /\ res.out.spawned = 1
    /\ res.child = NewProc
    /\ res.lastBridgeStatus = "pending"

\* the worker that res.child is ends with r, right after the call
C13_ThenClose(res, r) ==
    onClose([res EXCEPT !.child = ClosedProc, !.out = NoOut], res.child.closeL, r)

C13_Respawned(end) ==
    /\ end.out.spawned = 1
    /\ end.child = NewProc
    /\ end.lastBridgeStatus = "pending"

C13_RestartChildBridge ==
    Started =>
        LET res == restartChildBridge(Cur)
        IN  /\ manuallyStopped => C13_Fresh(res)
            /\ (~manuallyStopped /\ child.st = "running") =>
                  /\ res.out.killed
                  /\ \A r \in CloseResults :
                        ~CrashClose(r) => C13_Respawned(C13_ThenClose(res, r))

(* C13, amended: restartChildBridge on a manually stopped supervisor       *)
(* resets restartCount to 0 and, if status is Down and no connected worker *)
(* is attached, forks a fresh worker (status Pending); on a supervisor     *)
(* that is not manually stopped and has a connected worker it sends the    *)
(* worker SIGTERM, and if the supervisor is not shutting down, the close   *)
(* of that worker, unless a crash, is followed by a respawn done by the    *)
(* close listener.                                                         *)
C13_RestartChildBridgeGuarded ==
    Started =>
        LET res == restartChildBridge(Cur)
        IN  /\ manuallyStopped => res.restartCount = 0
            /\ (manuallyStopped /\ lastBridgeStatus = "down" /\ child.st # "running") =>
                  C13_Fresh(res)
            /\ (~manuallyStopped /\ child.st = "running") => res.out.killed
            /\ (~manuallyStopped /\ ~shuttingDown /\ child.st = "running") =>
                  \A r \in CloseResults :
                        ~CrashClose(r) => C13_Respawned(C13_ThenClose(res, r))

\* restartChildBridge has just forked the current worker
C13_Witness ==
    /\ child.by = "restartChildBridge" /\ child.st = "running" /\ child.phase = 0
    /\ restartCount = 0
    /\ lastBridgeStatus = "pending"
    /\ ~manuallyStopped /\ ~shuttingDown

(* C14: every assignment to the status, by any operation, message, process *)
(* event or timer, delivers exactly one snapshot to the StatusPublisher in *)
(* the same step: no handler changes the status without publishing, and    *)
(* the last snapshot of a handler that assigned carries the status it left.*)
C14_Handled ==
    { start(Cur, options), stopChildBridge(Cur), startChildBridge(Cur),
      restartChildBridge(Cur), onError(Cur) }
    \cup { signalHandler(Cur, n) : n \in SignalNums }
    \cup { ChildCloseResult(r) : r \in CloseResults }
    \cup { OrphanCloseResult(i, r) : i \in 1..Len(orphans), r \in CloseResults }
    \cup { TimerResult(i) : i \in 1..Len(timers) }

\* a StatusUpdate with its payload is published as well
C14_Extra(m) == IF m.id = "status" /\ m.hasData THEN 1 ELSE 0

C14_Notified(res, extra) ==
    /\ Len(res.pubs) = res.out.sets + extra
    /\ res.lastBridgeStatus # lastBridgeStatus => res.out.sets > 0
    /\ res.out.sets > 0 => res.pubs[Len(res.pubs)].status = res.lastBridgeStatus

C14_EveryAssignmentPublished ==
    /\ \A res \in C14_Handled : C14_Notified(res, 0)
    /\ \A m \in Messages :
          /\ C14_Notified(ChildMessageResult(m), C14_Extra(m))
          /\ \A i \in 1..Len(orphans) :
                C14_Notified(OrphanMessageResult(i, m), C14_Extra(m))

\* an online supervisor, where stopChildBridge assigns Down twice (its own
\* assignment and teardown's) and publishes two snapshots
C14_Witness ==
    /\ Started
    /\ lastBridgeStatus = "ok" /\ ~shuttingDown /\ child.st = "running"
    /\ Len(stopChildBridge(Cur).pubs) = 2
    /\ stopChildBridge(Cur).out.sets = 2

(* C15: an inbound message that has no id, or whose id is none of the      *)
(* kinds the supervisor handles (Ready, Loaded, Online, PortRequest,       *)
(* StatusUpdate), is discarded: it changes no field of the supervisor,     *)
(* sends the worker nothing, publishes nothing and raises no error.        *)
C15_Kinds == { "ready", "loaded", "online", "port", "status" }

C15_Discarded ==
    \A m \in Messages \cup PortMessages :
        m.id \notin C15_Kinds =>
            /\ MaySend(child, m.id) => ChildMessageResult(m) = Cur
            /\ \A i \in 1..Len(orphans) : OrphanMessageResult(i, m) = Cur

(* C16: a message whose id is recognized but whose payload is absent       *)
(* (Loaded, StatusUpdate or PortRequest without data) raises no exception  *)
(* in the supervisor and does not lead the host into its shutdown, which   *)
(* would tear down every supervisor's worker.                              *)
C16_Contained ==
    \A m \in Messages \cup PortMessages :
        (m.id \in { "loaded", "status", "port" } /\ ~m.hasData /\ MaySend(child, m.id)) =>
            LET res == ChildMessageResult(m)
            IN  /\ ~res.out.threw
                /\ res.cliShuttingDown = cliShuttingDown
                /\ res.shuttingDown = shuttingDown
                /\ ~res.out.killed

(* C17: for every PortRequest(requesterId) it receives, the supervisor     *)
(* calls requestPort(requesterId) once and, if the channel is connected    *)
(* when the call returns, sends exactly one PortAllocated with the same    *)
(* requesterId and the port returned; with no port left the reply carries  *)
(* an absent port: no error is raised and no reply is left out.            *)
C17_Asked(m, res) ==
    /\ res.out.asked = << m.payload.username >>
    /\ portCalls' = Append(portCalls, [username |-> m.payload.username,
                                       granted |-> FALSE, port |-> 0])
    /\ ~res.out.threw

C17_Granted(i) ==
    LET u == portCalls[i].username
        call == portCalls'[i]
    IN  /\ Len(portCalls') = Len(portCalls)
        /\ call.username = u /\ call.granted
        /\ call.port = 0 <=> (leases[u] = 0 /\ FreePorts(leases) = {})
        /\ call.port # 0 => leases'[u] = call.port

C17_Replied(i, res) ==
    /\ ~res.out.threw
    /\ portCalls' = Remove(portCalls, i)
    /\ IF child.st = "running"
       THEN /\ res.out.sent = << "portAllocated" >>
            /\ res.out.allocated = << [username |-> portCalls[i].username,
                                       port |-> portCalls[i].port] >>
       ELSE res.out.sent = << >> /\ res.out.allocated = << >>

C17_PortRequestAnswered ==
    [][/\ \A m \in PortMessages :
             (m.hasData /\ ChildSends(m)) => C17_Asked(m, ChildMessageResult(m))
       /\ \A i \in 1..Len(portCalls) :
             /\ GrantPortAt(i) => C17_Granted(i)
             /\ PortReplyAt(i) => C17_Replied(i, portAllocated(Cur, i))]_vars

\* the range is used up, and the request of the other requester is about
\* to be answered with an absent port
C17_Witness ==
    /\ child.st = "running"
    /\ \E i \in 1..Len(portCalls) :
          /\ portCalls[i].granted /\ portCalls[i].port = 0
          /\ portAllocated(Cur, i).out.allocated =
                 << [username |-> portCalls[i].username, port |-> 0] >>

(* C18: whatever the interleaving of the requestPort calls, the            *)
(* PortArbiter never has one port leased to two different requesters at    *)
(* the same time.                                                          *)
C18_NoPortLeasedTwice ==
    \A u, v \in Requesters : (u # v /\ leases[u] # 0) => leases[u] # leases[v]

\* two calls for different requesters were in flight together and both
\* were served: one holds the port
C18_Witness ==
    /\ Len(portCalls) = 2
    /\ portCalls[1].granted /\ portCalls[2].granted
    /\ portCalls[1].username # portCalls[2].username
    /\ \E u \in Requesters : leases[u] # 0

(* C19: when calls of requestPort for two different requesters are in     *)
(* flight together while exactly one port is left, exactly one of them     *)
(* returns that port and the other returns an absent port, in whichever    *)
(* order the arbiter serves them.                                          *)
C19_Racing(i, j) ==
    /\ i # j
    /\ ~portCalls[i].granted /\ ~portCalls[j].granted
    /\ portCalls[i].username # portCalls[j].username
    /\ leases[portCalls[i].username] = 0 /\ leases[portCalls[j].username] = 0
    /\ Cardinality(FreePorts(leases)) = 1

C19_ExactlyOneGetsLastPort ==
    \A i, j \in 1..Len(portCalls) :
        C19_Racing(i, j) =>
            LET served == grantPort(grantPort(Cur, i), j)
                last == CHOOSE p \in FreePorts(leases) : TRUE
            IN  /\ served.portCalls[i].port = last
                /\ served.portCalls[j].port = 0
                /\ served.portCalls[i].granted /\ served.portCalls[j].granted

\* both requesters have asked, nobody was served yet, one port is left
C19_Witness == \E i, j \in 1..Len(portCalls) : C19_Racing(i, j)

(* C20: on the global shutdown event the supervisor sets shuttingDown      *)
(* before it signals its worker, and from then on no process close, crash  *)
(* or not, and no restart timer forks a worker for that supervisor.        *)
C20_NoSpawnAfterShutdown ==
    [][/\ (Signal /\ ~cliShuttingDown) =>
             /\ shuttingDown'
             /\ \A n \in SignalNums :
                   signalHandler(Cur, n).out.killed = (child.st = "running")
       /\ cliShuttingDown => ~AutoSpawn]_vars

-----------------------------------------------------------------------------
(* C21: after the first SIGINT or SIGTERM the host receives, the host      *)
(* process eventually exits, by the timer of 5 seconds that signalHandler  *)
(* schedules and with exit code 128 + the number of that signal, whether   *)
(* or not any worker ever exits.                                           *)
C21_HostExits ==
    /\ [](~cliShuttingDown =>
            \A n \in SignalNums :
                signalHandler(Cur, n).exitTimer = << [left |-> 5, signalNum |-> n] >>)
    /\ cliShuttingDown ~> (exitCode # Running)
    /\ \A n \in SignalNums :
          (exitTimer # << >> /\ exitTimer[1].signalNum = n) ~> (exitCode = 128 + n)

\* the host has ended after SIGINT while its worker is still running
C21_Witness ==
    /\ exitCode = 130
    /\ cliShuttingDown
    /\ child.st = "running"

(* C22: a sendMessage issued while the supervisor has no worker, or while  *)
(* the channel of its worker is not connected, transmits nothing, raises   *)
(* no error and changes no field, so nothing is kept to be delivered       *)
(* later: the reply to a port request that arrives after the worker is     *)
(* gone is lost, and a worker forked afterwards starts having received     *)
(* nothing.                                                                *)
C22_Types == { "load", "start", "portAllocated" }

\* the worker that the step ends with has been sent nothing
C22_ReceivedNothing(p) == p.st = "running" => (~p.gotLoad /\ ~p.gotStart)

C22_DroppedNotQueued ==
    /\ [](~Connected(Cur) => \A type \in C22_Types : sendMessage(Cur, type) = Cur)
    /\ [][/\ \A i \in 1..Len(portCalls) :
               (PortReplyAt(i) /\ child.st # "running") =>
                   /\ portAllocated(Cur, i).out = NoOut
                   /\ portCalls' = Remove(portCalls, i)
                   /\ UNCHANGED << child, orphans, leases, lastBridgeStatus >>
          /\ child.st # "running" => C22_ReceivedNothing(child')]_vars

\* the arbiter has answered a call whose worker has closed meanwhile: the
\* PortAllocated about to be sent will be dropped
C22_Witness ==
    /\ child.st = "closed"
    /\ \E i \in 1..Len(portCalls) :
          /\ portCalls[i].granted
          /\ portAllocated(Cur, i).out.sent = << >>

(* C23: refreshConfig never raises to its caller, and when the persisted   *)
(* configuration cannot be read or parsed, or holds no block of this       *)
(* supervisor's plugin and bridge username, it leaves pluginConfig and     *)
(* bridgeConfig exactly as they were.                                      *)
C23_OwnList(f) == IF pluginType = "platform" THEN f.platforms ELSE f.accessories

C23_NoMatch(f) ==
    \/ ~f.readable
    \/ ~C23_OwnList(f).present
    \/ \A i \in 1..Len(C23_OwnList(f).blocks) :
          LET x == C23_OwnList(f).blocks[i]
          IN  ~(x.id = identifier /\ x.bridge.username = bridgeConfig.username)

C23_RefreshFailureKeepsConfig ==
    \A f \in ConfigFiles :
        LET res == refreshConfig(Cur, f)
        IN  /\ ~res.out.threw
            /\ C23_NoMatch(f) =>
                  /\ res.pluginConfig = pluginConfig
                  /\ res.bridgeConfig = bridgeConfig
                  /\ res = Cur

\* an earlier refresh found two blocks and took the descriptor of the
\* first; a refresh that finds a document without one is about to end
C23_Witness ==
    /\ Started
    /\ Len(pluginConfig) = 2 /\ pluginConfig[1] # FirstBlock
    /\ bridgeConfig = [username |-> Username, name |-> "c"]
    /\ \E f \in ConfigFiles :
          /\ f.readable /\ C23_OwnList(f).present /\ C23_NoMatch(f)
          /\ Len(C23_OwnList(f).blocks) = 2
          /\ refreshConfig(Cur, f).bridgeConfig = bridgeConfig

(* C24: a close of any kind, a crash (exit code 1, no signal) included,    *)
(* that is handled while shuttingDown is true changes neither the status   *)
(* nor restartCount nor manuallyStopped and schedules no restart timer.    *)
C24_CloseWhileShuttingDown ==
    [][\A r \in CloseResults :
          (/\ shuttingDown
           /\ ChildCloses(r) \/ \E i \in 1..Len(orphans) : OrphanCloses(i, r)) =>
              UNCHANGED << lastBridgeStatus, restartCount, manuallyStopped, timers >>]_vars

(* C25: a restart timer that fires forks a worker if and only if           *)
(* shuttingDown is false at that moment; fired while shuttingDown is true  *)
(* it changes no field of the supervisor and publishes nothing.            *)
C25_TimerRechecksFlag ==
    \A i \in 1..Len(timers) :
        timers[i].left = 0 =>
            LET res == TimerResult(i)
            IN  IF shuttingDown
                THEN res = [Cur EXCEPT !.timers = Remove(@, i)]
                ELSE /\ res.out.spawned = 1
                     /\ res.child = NewProc
                     /\ res.lastBridgeStatus = "pending"
                     /\ Len(res.pubs) = 1 /\ res.pubs[1].status = "pending"

\* a restart timer is due on a supervisor that was stopped while it waited
C25_Witness ==
    /\ shuttingDown /\ manuallyStopped
    /\ timers # << >> /\ timers[1].left = 0 /\ timers[1].stopped
    /\ TimerResult(1).out.spawned = 0
    /\ TimerResult(1).pubs = << >>

(* C26: whenever the status is Online, the current worker is live and has  *)
(* completed the handshake: it was sent Load after its Ready and Start     *)
(* after its Loaded, and its Online was received after that Start.         *)
C26_OnlineImpliesHandshake ==
    lastBridgeStatus = "ok" =>
        /\ child.st = "running"
        /\ child.phase = 3
        /\ child.gotLoad /\ child.gotStart

(* C27: for each worker the supervisor sends Load only in response to a    *)
(* Ready received from that worker and Start only in response to a Loaded  *)
(* received from it; it sends neither on its own, and never sends Start to *)
(* a worker it has not sent Load before.                                   *)
C27_Has(sent, type) == \E k \in 1..Len(sent) : sent[k] = type

C27_Silent(res) == ~C27_Has(res.out.sent, "load") /\ ~C27_Has(res.out.sent, "start")

C27_HandshakeInOrder ==
    /\ \A m \in Messages :
          MaySend(child, m.id) =>
              LET res == ChildMessageResult(m)
              IN  /\ C27_Has(res.out.sent, "load") => m.id = "ready"
                  /\ C27_Has(res.out.sent, "start") => (m.id = "loaded" /\ child.gotLoad)
    /\ \A i \in 1..Len(orphans), m \in Messages :
          MaySend(orphans[i], m.id) => C27_Silent(OrphanMessageResult(i, m))
    /\ \A res \in C14_Handled : C27_Silent(res)

(* C28: under fair timers, a supervisor that is neither stopped nor        *)
(* shutting down and has lost its worker (a close that is no crash, or a   *)
(* crash close with restartCount < 4) gets a new worker, unless            *)
(* stopChildBridge or the global shutdown comes first: while it has no     *)
(* live worker a respawn is pending, and it does not stay without one      *)
(* forever.                                                                *)
C28_Unattended ==
    /\ Started
    /\ ~shuttingDown /\ ~manuallyStopped /\ ~cliShuttingDown
    /\ LiveWorkers = 0

C28_EventuallyRespawned ==
    /\ [](C28_Unattended => timers # << >>)
    /\ C28_Unattended ~> (LiveWorkers > 0 \/ shuttingDown \/ cliShuttingDown)

\* the restart timer of the fourth crash has just forked the current worker
C28_Witness ==
    /\ child.by = "timer" /\ child.st = "running" /\ child.phase = 0
    /\ restartCount = 4
    /\ ~shuttingDown /\ ~manuallyStopped /\ ~cliShuttingDown
    /\ orphans = << >> /\ timers = << >>

(* C29: after every operation and every event handler of the supervisor,   *)
(* the snapshot delivered last to the StatusPublisher has the status and   *)
(* the manuallyStopped value that getMetadata() returns then: a handler    *)
(* that publishes ends with the fields of its last snapshot, and a handler *)
(* that publishes nothing changes neither of the two.                      *)
C29_Agrees(res) ==
    IF res.pubs # << >>
    THEN /\ res.pubs[Len(res.pubs)].status = getMetadata(res).status
         /\ res.pubs[Len(res.pubs)].manuallyStopped = getMetadata(res).manuallyStopped
    ELSE /\ getMetadata(res).status = getMetadata(Cur).status
         /\ getMetadata(res).manuallyStopped = getMetadata(Cur).manuallyStopped

C29_LastSnapshotCurrent ==
    /\ \A res \in C14_Handled : C29_Agrees(res)
    /\ \A m \in Messages :
          /\ MaySend(child, m.id) => C29_Agrees(ChildMessageResult(m))
          /\ \A i \in 1..Len(orphans) :
                MaySend(orphans[i], m.id) => C29_Agrees(OrphanMessageResult(i, m))

====
